---- MODULE Spec2Model ----
(***************************************************************************)
(* tagfmt: the command driver (gofmtMain, visitFile) and processFile, the  *)
(* orchestrator that initialises the selectors, builds the pass pipeline,  *)
(* runs the Scan and Execute loops and presents the result.                *)
(*                                                                         *)
(* The passes themselves (tagDoctor, tagFill, tagSort, tagFmt) are seen    *)
(* through the Executor interface only: a Scan or an Execute call returns  *)
(* nil or an error, an Execute call changes the tags of the tree.          *)
(***************************************************************************)
EXTENDS Integers, Sequences, FiniteSets, TLC

\* Number of path arguments of a run (flag.NArg() ranges over 0..NArgs).
NArgs == 2
\* Number of entries filepath.Walk visits in a directory argument.
DirEntries == 2

(***************************************************************************)
(* Strings that are parsed are sequences of one-character strings.         *)
(***************************************************************************)
Digits == {"0", "1", "2"}

\* strings.Split(s, sep) for a one-character separator.
RECURSIVE Split(_, _)
Split(s, sep) ==
    IF s = <<>> THEN << <<>> >>
    ELSE LET init == Split(SubSeq(s, 1, Len(s) - 1), sep)
             c == s[Len(s)]
         IN IF c = sep THEN Append(init, <<>>)
            ELSE [init EXCEPT ![Len(init)] = Append(@, c)]

\* strings.TrimSpace(s).
RECURSIVE TrimSpace(_)
TrimSpace(s) ==
    IF s = <<>> THEN s
    ELSE IF s[1] = " " THEN TrimSpace(Tail(s))
    ELSE IF s[Len(s)] = " " THEN TrimSpace(SubSeq(s, 1, Len(s) - 1))
    ELSE s

\* strconv.Atoi(s) returns a nil error: an optional sign, then digits.
AtoiOK(s) ==
    LET d == IF s # <<>> /\ s[1] \in {"+", "-"} THEN Tail(s) ELSE s
    IN d # <<>> /\ \A n \in 1..Len(d) : d[n] \in Digits

\* The weight loop of processFile returns a "format error" for the
\* flag value w.
tagSortWeightErr(w) ==
    LET parts == Split(w, "|")
    IN \E n \in 1..Len(parts) :
          LET weightStr == TrimSpace(parts[n])
              keyVals == Split(weightStr, "=")
          IN /\ TrimSpace(weightStr) # <<>>
             /\ \/ Len(keyVals) # 2
                \/ ~AtoiOK(TrimSpace(keyVals[2]))

\* Values of the -sw flag the runs are started with.
SortWeights ==
    { <<>>,
      <<"k", "=", "1", "|", "j", "=", "-", "2">>,
      <<" ", "k", " ", "=", " ", "1", " ", "|", " ">>,
      <<"k">>,
      <<"k", "=", "x">>,
      <<"k", "=", "1", "=", "2">> }

(***************************************************************************)
(* Regular expressions: the patterns the runs are started with, whether    *)
(* regexp.Compile accepts them and which names they match.                 *)
(***************************************************************************)
Names == {"A", "B", "BA"}
Patterns == {".*", "A", "("}
InversePatterns == {"", "A", "("}

\* regexp.Compile(expr) returns a nil error.
CompileOK(expr) == expr # "("

\* (*Regexp).MatchString of the compiled expr.
MatchString(expr, s) ==
    CASE expr = ".*" -> TRUE
      [] expr = ""   -> TRUE
      [] expr = "A"  -> s \in {"A", "BA"}
      [] OTHER       -> FALSE

\* The value of fieldFilter / structFieldSelect: the closure over the
\* compiled rule, or nil before the first successful init.
NilFilter == [set |-> FALSE, expr |-> "", inverse |-> FALSE]

\* The closure selectInit / structSelectInit stores.
\* (Faulty variant: the inverse flag is lost.)
NewFilterNoInverse(expr, inverse) == [set |-> TRUE, expr |-> expr, inverse |-> FALSE]
NewFilter(expr, inverse) == [set |-> TRUE, expr |-> expr, inverse |-> inverse]

\* Calling the stored closure on a name.
Accepts(f, s) ==
    IF f.inverse THEN ~MatchString(f.expr, s) ELSE MatchString(f.expr, s)

(***************************************************************************)
(* Configuration: the flags, fixed for a run.                              *)
(***************************************************************************)
\* Values of the -f flag: unset, a rule with a known transform, a rule with
\* an unknown transform.
FillRules == {"", "json=lower(_val)", "json=bogus(_val)"}

\* newTagFill returns an error for the rule string.
newTagFillErr(rule) == rule = "json=bogus(_val)"

AllFlags ==
    [ list : BOOLEAN, align : BOOLEAN, write : BOOLEAN, tagSort : BOOLEAN,
      doDiff : BOOLEAN, fill : FillRules, tagSortWeight : SortWeights,
      pattern : Patterns, inversePattern : InversePatterns,
      structPattern : Patterns, inverseStructPattern : InversePatterns ]

DefaultSelectors(c) ==
    /\ c.pattern = ".*" /\ c.inversePattern = ""
    /\ c.structPattern = ".*" /\ c.inverseStructPattern = ""

\* The flag defaults (resetFlags), and a profile with every mode switched on.
DefaultModes(c) ==
    /\ ~c.list /\ c.align /\ ~c.write /\ ~c.tagSort /\ ~c.doDiff
    /\ c.fill = "" /\ c.tagSortWeight = <<>>
AllModes(c) ==
    /\ c.list /\ c.align /\ c.write /\ c.tagSort /\ c.doDiff
    /\ c.fill = "json=lower(_val)"
    /\ c.tagSortWeight = <<"k", "=", "1", "|", "j", "=", "-", "2">>

\* The runs explored: every combination of the mode flags and fill rules
\* (default selectors, no weights); every weight string with sorting on and
\* off and every fill rule (default selectors, the three output flags all
\* off or all on); every combination of the four selector patterns, with
\* the default modes and with every mode on.
ModeRuns(c) == DefaultSelectors(c) /\ c.tagSortWeight = <<>>
WeightRuns(c) ==
    /\ DefaultSelectors(c)
    /\ c.align /\ c.list = c.write /\ c.write = c.doDiff
SelectorRuns(c) == DefaultModes(c) \/ AllModes(c)
Configs == { c \in AllFlags : ModeRuns(c) \/ WeightRuns(c) \/ SelectorRuns(c) }

(***************************************************************************)
(* Errors are named by the step that returns them; "nil" is no error.      *)
(***************************************************************************)
\* os.IsNotExist(err).
\* (Faulty variant: every error passes for a missing file.)
IsNotExistAny(e) == e # "nil"
IsNotExist(e) == e = "notexist"

\* The errors that come from the flags and not from the file.
IsConfigErr(e) == e \in {"pattern", "fillrule", "sortweight"}

\* report sets the exit code.
\* (Faulty variant: the exit code is left as it is.)
reportKeepsCode(code) == code
report(code) == 2

PassNames == {"Doctor", "Fill", "Sort", "Align"}

\* The executor slice processFile appends to, for the flags c.
\* (Faulty variant: Sort is appended before Fill.)
executorSortFirst(c) ==
    <<"Doctor">>
    \o (IF c.tagSort THEN <<"Sort">> ELSE <<>>)
    \o (IF c.fill # "" THEN <<"Fill">> ELSE <<>>)
    \o (IF c.align THEN <<"Align">> ELSE <<>>)
executorOf(c) ==
    <<"Doctor">>
    \o (IF c.fill # "" THEN <<"Fill">> ELSE <<>>)
    \o (IF c.tagSort THEN <<"Sort">> ELSE <<>>)
    \o (IF c.align THEN <<"Align">> ELSE <<>>)

\* Where control goes after executor[n].Scan() returned nil: the Scan loop
\* runs to its end before the Execute loop starts.
\* (Faulty variant: each pass is executed right after its own Scan.)
afterScanPerPass(ex, n) == [pc |-> "pf_exec", k |-> n]
afterScan(ex, n) ==
    IF n < Len(ex) THEN [pc |-> "pf_scan", k |-> n + 1]
    ELSE [pc |-> "pf_exec", k |-> 1]

\* Where control goes after executor[n].Execute() returned nil.
\* (Faulty variant: the next pass is scanned after an Execute.)
afterExecuteRescan(ex, n) ==
    IF n < Len(ex) THEN [pc |-> "pf_scan", k |-> n + 1]
    ELSE [pc |-> "pf_print", k |-> 0]
afterExecute(ex, n) ==
    IF n < Len(ex) THEN [pc |-> "pf_exec", k |-> n + 1]
    ELSE [pc |-> "pf_print", k |-> 0]

\* The steps of the "formatting has changed" block that the flags enable,
\* in the order of the code, then the final write of the result.
afterList(c) ==
    IF c.write THEN "pf_backup" ELSE IF c.doDiff THEN "pf_diff" ELSE "pf_out"
afterWrite(c) == IF c.doDiff THEN "pf_diff" ELSE "pf_out"

\* Where control goes after backupFile returned e.
\* (Faulty variant: the error of backupFile is ignored.)
afterBackupIgnoreErr(e) == "pf_overwrite"
afterBackup(e) == IF e # "nil" THEN "pf_ret" ELSE "pf_overwrite"

\* The guard of the final out.Write(res).
\* (Faulty variant: -d is not looked at.)
writesResultIgnoreDiff(c) == ~c.list /\ ~c.write
writesResult(c) == ~c.list /\ ~c.write /\ ~c.doDiff

VARIABLES
    cfg,                \* the flags
    narg,               \* flag.NArg()
    i,                  \* gofmtMain: index of the current path argument
    j,                  \* walkDir: index of the current directory entry
    pc,                 \* the statement about to run
    caller,             \* who called processFile: "main", "visit", "stdin"
    exitCode,
    fieldFilter,
    structFieldSelect,
    \* processFile's locals and the files it touches
    executor,           \* the pipeline
    k,                  \* index of the Scan / Execute loop
    tree,               \* the passes whose Execute has changed the tree
    res,                \* "none", or the printed result: "same" / "differs"
    out,                \* what was written to out
    file,               \* content of the file: "src", "res", "partial"
    bak,                \* content of the backup: "none", "partial", "src"
    err,                \* the error processFile returns
    \* history
    scanLog,            \* the passes whose Scan was called, in call order
    execLog,            \* the passes whose Execute was called, in call order
    scanSaw,            \* the tree each Scan read
    dataErr,            \* a pass returned an error in this call
    overwritten,        \* ioutil.WriteFile returned nil in this call
    diffFailed,         \* the diff command returned an error in this call
    diffParts,          \* the parts its output split into; -1: not run
    processed,          \* the arguments gofmtMain is done with
    cfgSeen,            \* some call returned a configuration error
    cfgReports,         \* number of configuration errors reported
    procAfterCfg,       \* processFile was called after such a report
    swallowed,          \* the errors that were not reported
    anyReported         \* report was called

runVars == <<cfg, narg, i, j, caller>>
selVars == <<fieldFilter, structFieldSelect>>
passVars == <<executor, k, tree, scanLog, execLog, scanSaw, dataErr>>
ioVars == <<res, out, file, bak, overwritten, diffFailed, diffParts>>
repVars == <<exitCode, processed, cfgReports, swallowed, anyReported>>
vars == <<runVars, pc, selVars, passVars, ioVars, repVars, err, cfgSeen,
          procAfterCfg>>

Init ==
    /\ cfg \in Configs
    /\ narg \in 0..NArgs
    /\ i = 0 /\ j = 0
    /\ pc = "start"
    /\ caller = "none"
    /\ exitCode = 0
    /\ fieldFilter = NilFilter
    /\ structFieldSelect = NilFilter
    /\ executor = <<>> /\ k = 0 /\ tree = <<>>
    /\ res = "none" /\ out = <<>> /\ file = "src" /\ bak = "none"
    /\ err = "nil"
    /\ scanLog = <<>> /\ execLog = <<>>
    /\ scanSaw = [p \in PassNames |-> <<>>]
    /\ dataErr = FALSE /\ overwritten = FALSE /\ diffFailed = FALSE
    /\ diffParts = -1
    /\ processed = <<>>
    /\ cfgSeen = FALSE /\ cfgReports = 0 /\ procAfterCfg = FALSE
    /\ swallowed = {} /\ anyReported = FALSE

\* processFile's locals, and the file and backup it works on, as they are
\* when a call starts; they are gone when it has returned.
Fresh ==
    /\ executor' = <<>> /\ k' = 0 /\ tree' = <<>>
    /\ res' = "none" /\ out' = <<>> /\ file' = "src" /\ bak' = "none"
    /\ err' = "nil"
    /\ scanLog' = <<>> /\ execLog' = <<>>
    /\ scanSaw' = [p \in PassNames |-> <<>>]
    /\ dataErr' = FALSE /\ overwritten' = FALSE /\ diffFailed' = FALSE
    /\ diffParts' = -1

\* A call of processFile.
Call(from, at) ==
    /\ pc' = at
    /\ caller' = from
    /\ Fresh
    /\ procAfterCfg' = (procAfterCfg \/ cfgReports > 0)
    /\ UNCHANGED <<cfg, narg, selVars, repVars, cfgSeen>>

\* report(e), or e dropped without a report.
Report(e) ==
    /\ exitCode' = report(exitCode)
    /\ cfgReports' = IF IsConfigErr(e) THEN cfgReports + 1 ELSE cfgReports
    /\ anyReported' = TRUE
    /\ UNCHANGED swallowed
Drop(from, e) ==
    /\ swallowed' = IF e = "nil" THEN swallowed
                    ELSE swallowed \cup {[by |-> from, err |-> e]}
    /\ UNCHANGED <<exitCode, cfgReports, anyReported>>

\* processFile returns e.
Return(e) ==
    /\ pc' = "pf_ret"
    /\ err' = e
    /\ cfgSeen' = (cfgSeen \/ IsConfigErr(e))

(***************************************************************************)
(* gofmtMain, walkDir and visitFile.                                       *)
(***************************************************************************)
\* gofmtMain up to the argument loop: without arguments the standard input
\* is processed, which -w forbids.
MainStart ==
    /\ pc = "start"
    /\ \/ /\ narg = 0 /\ cfg.write
          /\ exitCode' = 2
          /\ pc' = "done"
          /\ UNCHANGED <<runVars, selVars, passVars, ioVars, processed,
                         cfgReports, swallowed, anyReported, err, cfgSeen,
                         procAfterCfg>>
       \/ /\ narg = 0 /\ ~cfg.write
          /\ Call("stdin", "pf_select")
          /\ UNCHANGED <<i, j>>
       \/ /\ narg > 0
          /\ i' = 1
          /\ pc' = "loop"
          /\ UNCHANGED <<cfg, narg, j, caller, selVars, passVars, ioVars,
                         repVars, err, cfgSeen, procAfterCfg>>

\* One turn of the argument loop: os.Stat(path), then report, walkDir or
\* processFile.
MainLoop ==
    /\ pc = "loop"
    /\ \/ /\ i > narg
          /\ pc' = "done"
          /\ UNCHANGED <<runVars, selVars, passVars, ioVars, repVars, err,
                         cfgSeen, procAfterCfg>>
       \/ /\ i <= narg
          /\ \/ /\ Report("stat")
                /\ processed' = Append(processed, i)
                /\ i' = i + 1
                /\ UNCHANGED <<cfg, narg, j, caller, pc, selVars, passVars,
                               ioVars, err, cfgSeen, procAfterCfg>>
             \/ /\ j' = 1
                /\ pc' = "walk"
                /\ UNCHANGED <<cfg, narg, i, caller, selVars, passVars,
                               ioVars, repVars, err, cfgSeen, procAfterCfg>>
             \/ /\ Call("main", "pf_open")
                /\ UNCHANGED <<i, j>>

\* filepath.Walk calls visitFile for the next entry of the directory, with
\* the error it met there; visitFile calls processFile for a Go file, and
\* reports an error unless os.IsNotExist holds of it.
Walk ==
    /\ pc = "walk"
    /\ \/ /\ j > DirEntries
          /\ processed' = Append(processed, i)
          /\ i' = i + 1
          /\ pc' = "loop"
          /\ UNCHANGED <<cfg, narg, j, caller, selVars, passVars, ioVars,
                         exitCode, cfgReports, swallowed, anyReported, err,
                         cfgSeen, procAfterCfg>>
       \/ /\ j <= DirEntries
          /\ \E werr \in {"nil", "notexist", "perm"}, isGoFile \in BOOLEAN :
                IF werr = "nil" /\ isGoFile
                THEN /\ Call("visit", "pf_open")
                     /\ UNCHANGED <<i, j>>
                ELSE /\ IF werr # "nil" /\ ~IsNotExist(werr)
                        THEN Report(werr)
                        ELSE Drop("visit", werr)
                     /\ j' = j + 1
                     /\ UNCHANGED <<cfg, narg, i, caller, pc, selVars,
                                    passVars, ioVars, processed, err, cfgSeen,
                                    procAfterCfg>>

\* processFile has returned err to its caller.
Returned ==
    /\ pc = "pf_ret"
    /\ \/ /\ caller = "main"
          /\ IF err # "nil" THEN Report(err) ELSE Drop("main", err)
          /\ processed' = Append(processed, i)
          /\ i' = i + 1
          /\ pc' = "loop"
          /\ UNCHANGED j
       \/ /\ caller = "visit"
          /\ IF err # "nil" /\ ~IsNotExist(err)
             THEN Report(err)
             ELSE Drop("visit", err)
          /\ j' = j + 1
          /\ pc' = "walk"
          /\ UNCHANGED <<i, processed>>
       \/ /\ caller = "stdin"
          /\ IF err # "nil" THEN Report(err) ELSE Drop("stdin", err)
          /\ pc' = "done"
          /\ UNCHANGED <<i, j, processed>>
    /\ caller' = "none"
    /\ Fresh
    /\ UNCHANGED <<cfg, narg, selVars, cfgSeen, procAfterCfg>>

(***************************************************************************)
(* processFile.                                                            *)
(***************************************************************************)
\* os.Open and f.Stat of a named file.
Open ==
    /\ pc = "pf_open"
    /\ \E e \in {"nil", "notexist", "perm"} :
          IF e = "nil"
          THEN pc' = "pf_select" /\ UNCHANGED <<err, cfgSeen>>
          ELSE Return(e)
    /\ UNCHANGED <<runVars, selVars, passVars, ioVars, repVars, procAfterCfg>>

\* The field selector: the inverse pattern when it is set, else the pattern.
SelectInit ==
    /\ pc = "pf_select"
    /\ LET inverse == cfg.inversePattern # ""
           expr == IF inverse THEN cfg.inversePattern ELSE cfg.pattern
       IN IF CompileOK(expr)
          THEN /\ fieldFilter' = NewFilter(expr, inverse)
               /\ pc' = "pf_sselect"
               /\ UNCHANGED <<err, cfgSeen>>
          ELSE /\ Return("pattern")
               /\ UNCHANGED fieldFilter
    /\ UNCHANGED <<runVars, structFieldSelect, passVars, ioVars, repVars,
                   procAfterCfg>>

\* The struct selector, likewise.
StructSelectInit ==
    /\ pc = "pf_sselect"
    /\ LET inverse == cfg.inverseStructPattern # ""
           expr == IF inverse THEN cfg.inverseStructPattern
                   ELSE cfg.structPattern
       IN IF CompileOK(expr)
          THEN /\ structFieldSelect' = NewFilter(expr, inverse)
               /\ pc' = "pf_parse"
               /\ UNCHANGED <<err, cfgSeen>>
          ELSE /\ Return("pattern")
               /\ UNCHANGED structFieldSelect
    /\ UNCHANGED <<runVars, fieldFilter, passVars, ioVars, repVars,
                   procAfterCfg>>

\* ioutil.ReadAll and parser.ParseFile.
ReadParse ==
    /\ pc = "pf_parse"
    /\ \E e \in {"nil", "read", "parse"} :
          IF e = "nil"
          THEN pc' = "pf_build" /\ UNCHANGED <<err, cfgSeen>>
          ELSE Return(e)
    /\ UNCHANGED <<runVars, selVars, passVars, ioVars, repVars, procAfterCfg>>

\* The pipeline is built: the fill rule and the sort weights are parsed on
\* the way.
Build ==
    /\ pc = "pf_build"
    /\ IF cfg.fill # "" /\ newTagFillErr(cfg.fill)
       THEN Return("fillrule") /\ UNCHANGED <<executor, k>>
       ELSE IF cfg.tagSort /\ tagSortWeightErr(cfg.tagSortWeight)
       THEN Return("sortweight") /\ UNCHANGED <<executor, k>>
       ELSE /\ executor' = executorOf(cfg)
            /\ k' = 1
            /\ pc' = "pf_scan"
            /\ UNCHANGED <<err, cfgSeen>>
    /\ UNCHANGED <<runVars, selVars, tree, scanLog, execLog, scanSaw, dataErr,
                   ioVars, repVars, procAfterCfg>>

\* One turn of the Scan loop.
Scan ==
    /\ pc = "pf_scan"
    /\ scanLog' = Append(scanLog, executor[k])
    /\ scanSaw' = [scanSaw EXCEPT ![executor[k]] = tree]
    /\ \E e \in {"nil", "data"} :
          IF e = "nil"
          THEN /\ pc' = afterScan(executor, k).pc
               /\ k' = afterScan(executor, k).k
               /\ UNCHANGED <<err, cfgSeen, dataErr>>
          ELSE /\ Return(e)
               /\ dataErr' = TRUE
               /\ UNCHANGED k
    /\ UNCHANGED <<runVars, selVars, executor, tree, execLog, ioVars, repVars,
                   procAfterCfg>>

\* One turn of the Execute loop: the pass changes the tags of the tree.
Execute ==
    /\ pc = "pf_exec"
    /\ execLog' = Append(execLog, executor[k])
    /\ tree' = Append(tree, executor[k])
    /\ \E e \in {"nil", "data"} :
          IF e = "nil"
          THEN /\ pc' = afterExecute(executor, k).pc
               /\ k' = afterExecute(executor, k).k
               /\ UNCHANGED <<err, cfgSeen, dataErr>>
          ELSE /\ Return(e)
               /\ dataErr' = TRUE
               /\ UNCHANGED k
    /\ UNCHANGED <<runVars, selVars, executor, scanLog, scanSaw, ioVars,
                   repVars, procAfterCfg>>

\* The tree is printed and compared with the source; a changed file is
\* listed under -l.
Format ==
    /\ pc = "pf_print"
    /\ \/ /\ Return("print")
          /\ UNCHANGED <<res, out>>
       \/ /\ res' = "same"
          /\ pc' = "pf_out"
          /\ UNCHANGED <<out, err, cfgSeen>>
       \/ /\ res' = "differs"
          /\ out' = IF cfg.list THEN Append(out, "name") ELSE out
          /\ pc' = afterList(cfg)
          /\ UNCHANGED <<err, cfgSeen>>
    /\ UNCHANGED <<runVars, selVars, passVars, file, bak, overwritten,
                   diffFailed, diffParts, repVars, procAfterCfg>>

\* backupFile: the temporary file cannot be created; Chmod fails and the
\* backup is removed; Write or Close fails and the backup stays as it is;
\* or the backup holds the source.
Backup ==
    /\ pc = "pf_backup"
    /\ \/ /\ bak' = "none"
          /\ pc' = afterBackup("backup")
          /\ err' = "backup"
       \/ /\ bak' \in {"partial", "src"}
          /\ pc' = afterBackup("backup")
          /\ err' = "backup"
       \/ /\ bak' = "src"
          /\ pc' = afterBackup("nil")
          /\ UNCHANGED err
    /\ UNCHANGED <<runVars, selVars, passVars, res, out, file, overwritten,
                   diffFailed, diffParts, repVars, cfgSeen, procAfterCfg>>

\* ioutil.WriteFile(filename, res, perm): a failure leaves the file as it
\* was or cut short.
Overwrite ==
    /\ pc = "pf_overwrite"
    /\ \/ /\ file' = "res"
          /\ overwritten' = TRUE
          /\ pc' = "pf_remove"
          /\ UNCHANGED err
       \/ /\ file' \in {"src", "partial"}
          /\ err' = "write"
          /\ pc' = "pf_rename"
          /\ UNCHANGED overwritten
    /\ UNCHANGED <<runVars, selVars, passVars, res, out, bak, diffFailed,
                   diffParts,
                   repVars, cfgSeen, procAfterCfg>>

\* os.Rename(bakname, filename) after the failed write; its error is dropped.
RenameBack ==
    /\ pc = "pf_rename"
    /\ \/ file' = bak /\ bak' = "none"
       \/ UNCHANGED <<file, bak>>
    /\ pc' = "pf_ret"
    /\ UNCHANGED <<runVars, selVars, passVars, res, out, overwritten,
                   diffFailed, diffParts, repVars, err, cfgSeen, procAfterCfg>>

\* os.Remove(bakname) after the write.
RemoveBackup ==
    /\ pc = "pf_remove"
    /\ \/ /\ bak' = "none"
          /\ pc' = afterWrite(cfg)
          /\ UNCHANGED <<err, cfgSeen>>
       \/ /\ Return("remove")
          /\ UNCHANGED bak
    /\ UNCHANGED <<runVars, selVars, passVars, res, out, file, overwritten,
                   diffFailed, diffParts, repVars, procAfterCfg>>

\* diff returns an error after the command ended with or without an error
\* (cmdErr) and with output that bytes.SplitN(data, "\n", 3) splits into
\* parts pieces (0: no output): output is handed to replaceTempFilename,
\* which wants three pieces, whatever the command's error; without output
\* the command's error is returned.
\* (Faulty variant: the command's error is returned whenever there is one.)
diffErrStrict(cmdErr, parts) == cmdErr \/ (parts > 0 /\ parts < 3)
diffErr(cmdErr, parts) ==
    IF parts > 0 THEN parts < 3 ELSE cmdErr

\* diff(src, res, filename) and the write of its data: a temporary file
\* cannot be written; or the command runs, once (at most 3 pieces of its
\* output are told apart).
Diff ==
    /\ pc = "pf_diff"
    /\ \/ /\ Return("diff")
          /\ UNCHANGED <<out, diffFailed, diffParts>>
       \/ \E cmdErr \in BOOLEAN, parts \in 0..3 :
             /\ diffFailed' = cmdErr
             /\ diffParts' = parts
             /\ IF diffErr(cmdErr, parts)
                THEN /\ Return("diff")
                     /\ UNCHANGED out
                ELSE /\ out' = Append(out, "diff")
                     /\ pc' = "pf_out"
                     /\ UNCHANGED <<err, cfgSeen>>
    /\ UNCHANGED <<runVars, selVars, passVars, res, file, bak, overwritten,
                   repVars, procAfterCfg>>

\* The result goes to out when no mode flag is set; processFile returns.
WriteOut ==
    /\ pc = "pf_out"
    /\ IF writesResult(cfg)
       THEN /\ out' = Append(out, "res")
              /\ \E e \in {"nil", "out"} : err' = e
       ELSE UNCHANGED <<out, err>>
    /\ pc' = "pf_ret"
    /\ UNCHANGED <<runVars, selVars, passVars, res, file, bak, overwritten,
                   diffFailed, diffParts, repVars, cfgSeen, procAfterCfg>>

Next ==
    \/ MainStart \/ MainLoop \/ Walk \/ Returned
    \/ Open \/ SelectInit \/ StructSelectInit \/ ReadParse \/ Build
    \/ Scan \/ Execute \/ Format
    \/ Backup \/ Overwrite \/ RenameBack \/ RemoveBackup \/ Diff \/ WriteOut

Spec == Init /\ [][Next]_vars

(***************************************************************************)
(* Properties.                                                             *)
(***************************************************************************)
Range(s) == {s[n] : n \in 1..Len(s)}
NoRepeat(s) == \A m, n \in 1..Len(s) : s[m] = s[n] => m = n
Rank(p) == CASE p = "Doctor" -> 1 [] p = "Fill" -> 2 [] p = "Sort" -> 3
             [] p = "Align" -> 4
IsPrefix(s, t) == Len(s) <= Len(t) /\ \A n \in 1..Len(s) : s[n] = t[n]

\* C1 as stated: the passes run Scan-then-Execute per pass: for every two
\* consecutive passes P, Q of the pipeline, Q is scanned only after P was
\* executed, and the tree Align.Scan reads holds the changes of the Execute
\* steps of all the passes before it.
C1_ScanThenExecutePerPass ==
    /\ \A n \in 1..(Len(executor) - 1) :
          executor[n + 1] \in Range(scanLog) => executor[n] \in Range(execLog)
    /\ "Align" \in Range(scanLog) =>
          \A n \in 1..(Len(executor) - 1) : executor[n] \in Range(scanSaw["Align"])

\* C1 amended: the passes are batched: for every two consecutive passes
\* P, Q of the pipeline, P is executed only after Q was scanned, and every
\* Scan, Align's too, reads the tree no Execute step has changed yet.
C1_ScansBatchedBeforeExecutes ==
    /\ \A n \in 1..(Len(executor) - 1) :
          executor[n] \in Range(execLog) => executor[n + 1] \in Range(scanLog)
    /\ \A p \in Range(scanLog) : scanSaw[p] = <<>>

\* C1 witness: a full pipeline has run to its end, and Align was scanned
\* on the unchanged tree.
C1_Witness ==
    /\ executor = <<"Doctor", "Fill", "Sort", "Align">>
    /\ execLog = executor
    /\ tree = executor
    /\ scanSaw["Align"] = <<>>

\* C2: the pipeline, once built, starts with Doctor, holds Fill iff the
\* fill rule is non-empty, Sort iff -s and Align iff -a, in the order
\* Doctor, Fill, Sort, Align; the Scan calls and the Execute calls follow
\* the pipeline's order.
C2_PipelineOrder ==
    /\ executor # <<>> =>
          /\ executor[1] = "Doctor"
          /\ ("Fill" \in Range(executor)) <=> (cfg.fill # "")
          /\ ("Sort" \in Range(executor)) <=> cfg.tagSort
          /\ ("Align" \in Range(executor)) <=> cfg.align
          /\ \A m, n \in 1..Len(executor) :
                m < n => Rank(executor[m]) < Rank(executor[n])
    /\ IsPrefix(scanLog, executor)
    /\ IsPrefix(execLog, executor)

\* C2 witness: with fill, sort and align all set the four passes were
\* scanned and executed.
C2_Witness ==
    /\ cfg.fill # "" /\ cfg.tagSort /\ cfg.align
    /\ Len(scanLog) = 4 /\ Len(execLog) = 4
    /\ pc = "pf_print"

\* C3: once an Execute was called, every pass of the pipeline has been
\* scanned exactly once and no Scan is called any more; no pass is scanned
\* or executed twice.
C3_AllScansBeforeAnyExecute ==
    /\ execLog # <<>> => scanLog = executor
    /\ pc = "pf_scan" => execLog = <<>>
    /\ NoRepeat(scanLog) /\ Len(scanLog) <= Len(executor)
    /\ NoRepeat(execLog) /\ Len(execLog) <= Len(executor)

\* C3 witness: in the middle of the Execute loop of a pipeline of several
\* passes.
C3_Witness ==
    /\ pc = "pf_exec" /\ k = 2 /\ Len(executor) >= 3
    /\ execLog = <<"Doctor">>

\* C4: a call that returns a configuration error has called no Scan and
\* no Execute and has written neither to out nor to the file or a backup;
\* a run that met a configuration error ends with a nonzero exit code.
C4_ConfigErrorAborts ==
    /\ (pc = "pf_ret" /\ IsConfigErr(err)) =>
          /\ scanLog = <<>> /\ execLog = <<>> /\ tree = <<>>
          /\ out = <<>> /\ file = "src" /\ bak = "none"
    /\ (pc = "done" /\ cfgSeen) => exitCode # 0

\* C4 witness: a run in write mode has ended after a malformed sort weight.
C4_Witness ==
    /\ pc = "done" /\ cfgSeen /\ cfg.write /\ cfg.list
    /\ cfg.tagSort /\ tagSortWeightErr(cfg.tagSortWeight)
    /\ exitCode = 2

\* C5 as stated: in a call where a pass returned an error, every pass of
\* the pipeline is still scanned and executed and the result is still
\* written to out (when no mode flag is set).
C5_DataErrorStillEmits ==
    (pc = "pf_ret" /\ dataErr) =>
        /\ scanLog = executor
        /\ execLog = executor
        /\ (~cfg.list /\ ~cfg.write /\ ~cfg.doDiff) => "res" \in Range(out)

\* C6 as stated: at the end of a run over several paths every path was
\* processed, in argument order, and every error was reported and made the
\* exit code 2.
C6_EveryErrorReported ==
    /\ processed = [n \in 1..Len(processed) |-> n]
    /\ (pc = "done" /\ narg > 0) =>
          /\ Len(processed) = narg
          /\ swallowed = {}
          /\ anyReported => exitCode = 2

\* C6 amended: ... every error was reported and made the exit code 2,
\* except the does-not-exist errors met in a directory walk, which are
\* dropped.
C6_ErrorsDoNotStopRun ==
    /\ processed = [n \in 1..Len(processed) |-> n]
    /\ pc \notin {"start", "done"} /\ caller # "stdin" => Len(processed) = i - 1
    /\ swallowed \subseteq {[by |-> "visit", err |-> "notexist"]}
    /\ anyReported => exitCode = 2
    /\ (pc = "done" /\ narg > 0) => Len(processed) = narg

\* C6 witness: after an error was reported, the last of several paths was
\* still processed, to the end and without error.
C6_Witness ==
    /\ pc = "pf_ret" /\ caller = "main" /\ narg >= 2 /\ i = narg
    /\ Len(processed) = narg - 1
    /\ anyReported /\ exitCode = 2
    /\ err = "nil" /\ res # "none"

\* C7 as stated: a configuration error is reported once, and after that
\* report processFile is not called again.
C7_ConfigErrorReportedOnce ==
    /\ cfgReports <= 1
    /\ ~procAfterCfg

\* C8: each selector, once initialised, accepts a name exactly when its
\* inverse pattern, if non-empty, does not match the name, else exactly
\* when its pattern matches; each depends on its own two flags only, and
\* with the default flags both accept every name.
C8_SelectorsIndependent ==
    /\ fieldFilter.set =>
          \A s \in Names :
             Accepts(fieldFilter, s) <=>
                IF cfg.inversePattern # ""
                THEN ~MatchString(cfg.inversePattern, s)
                ELSE MatchString(cfg.pattern, s)
    /\ structFieldSelect.set =>
          \A s \in Names :
             Accepts(structFieldSelect, s) <=>
                IF cfg.inverseStructPattern # ""
                THEN ~MatchString(cfg.inverseStructPattern, s)
                ELSE MatchString(cfg.structPattern, s)
    /\ (pc \in {"pf_sselect", "pf_parse"}) => fieldFilter.set
    /\ (pc = "pf_parse") => structFieldSelect.set
    /\ (DefaultSelectors(cfg) /\ fieldFilter.set /\ structFieldSelect.set) =>
          \A s \in Names : Accepts(fieldFilter, s) /\ Accepts(structFieldSelect, s)

\* C8 witness: the field selector is inverted and the struct selector is
\* not, from the same pattern: they disagree on every name.
C8_Witness ==
    /\ pc = "pf_parse"
    /\ cfg.inversePattern = "A" /\ cfg.inverseStructPattern = ""
    /\ cfg.structPattern = "A"
    /\ \A s \in Names : Accepts(fieldFilter, s) <=> ~Accepts(structFieldSelect, s)
    /\ Accepts(fieldFilter, "B") /\ Accepts(structFieldSelect, "BA")

\* C9: in write mode, until ioutil.WriteFile has succeeded, the file or
\* the backup holds the complete source; the file is overwritten only with
\* the complete backup in place; after a failed overwrite the rename has
\* put the source back or the backup still holds it; the backup is gone
\* only if it never was complete, was renamed back, or the overwrite
\* succeeded.
C9_OriginalNeverLost ==
    /\ ~overwritten => (file = "src" \/ bak = "src")
    /\ overwritten => file = "res"
    /\ pc = "pf_overwrite" => (bak = "src" /\ file = "src")
    /\ pc = "pf_rename" => (bak = "src" /\ err = "write")
    /\ (pc = "pf_ret" /\ err = "write") =>
          \/ file = "src" /\ bak = "none"
          \/ bak = "src"
    /\ pc = "pf_remove" => (overwritten /\ bak = "src")

\* C9 witness: the overwrite failed half way and the rename failed too:
\* the backup holds the source.
C9_Witness ==
    /\ pc = "pf_ret" /\ err = "write"
    /\ file = "partial" /\ bak = "src"

\* C10: the result is written to out iff none of -l, -w, -d is set (in a
\* call that got as far as printing it); the name is listed, the file is
\* touched and the diff is written only under the matching flag and only
\* when the result differs from the source.
C10_PresentationByFlags ==
    /\ "res" \in Range(out) => (~cfg.list /\ ~cfg.write /\ ~cfg.doDiff)
    /\ (pc = "pf_ret" /\ res # "none" /\ ~cfg.list /\ ~cfg.write /\ ~cfg.doDiff)
          => out = <<"res">>
    /\ "name" \in Range(out) => (cfg.list /\ res = "differs")
    /\ (file # "src" \/ bak # "none" \/ pc \in {"pf_backup", "pf_overwrite"})
          => (cfg.write /\ res = "differs")
    /\ ("diff" \in Range(out) \/ pc = "pf_diff") => (cfg.doDiff /\ res = "differs")
    /\ res = "same" => (file = "src" /\ bak = "none" /\ Range(out) \subseteq {"res"})

\* C10 witness: with -l, -w and -d all set a file whose result equals its
\* source was processed to the end, and nothing was listed, written or
\* diffed.
C10_Witness ==
    /\ pc = "pf_ret" /\ err = "nil" /\ res = "same"
    /\ cfg.list /\ cfg.write /\ cfg.doDiff
    /\ out = <<>> /\ file = "src" /\ bak = "none"

====
